---- MODULE Spec2Model ----
(***************************************************************************)
(* sparktk Frame: the dual-backend frame facade (python/sparktk/frame/     *)
(* frame.py).  A Frame stores one backend object in self._frame: either a  *)
(* PythonFrame (python RDD + python schema) or a handle to a Scala Frame   *)
(* living in the JVM engine.  The module models                            *)
(*   - schema inference (_infer_types_for_row, _merge_types,               *)
(*     _infer_schema),                                                     *)
(*   - schema validation (validate_pyrdd_schema and its row function),     *)
(*   - the constructor and the backend conversions (_scala, _python) with  *)
(*     the API built on them.                                              *)
(* Four specifications share the variables: Spec (the Frame facade),       *)
(* SpecInfer (calls of _infer_schema), SpecValidate (rows pulled through   *)
(* the validating map) and SpecThreads (threads running Frame._scala       *)
(* statement by statement on one Frame).                                   *)
(***************************************************************************)
EXTENDS Integers, Sequences, FiniteSets, TLC

VARIABLES
    pc,        \* "new" before Frame.__init__ has returned, "ready" after
    _frame,    \* self._frame, the one stored backend object
    nextId,    \* identity given to the next backend object that is created
    ncalls,    \* API calls made so far
    promotions,\* Scala frames created by Frame._scala so far
    last,      \* record of the last constructor/API call
    icall,     \* SpecInfer: arguments and result of an _infer_schema call
    vcall,     \* SpecValidate: the validating map and the row it last produced
    threads    \* SpecThreads: the threads inside Frame._scala and their locals

vars == <<pc, _frame, nextId, ncalls, promotions, last, icall, vcall, threads>>

(***************************************************************************)
(* Bounds of the model.                                                    *)
(***************************************************************************)
MaxRows == 3        \* rows of a one-column data list given to _infer_schema
MaxWideRows == 2    \* rows of a several-column data list
MaxCols == 2        \* columns of a row / of a schema
MaxNames == 3       \* requested column names
MaxPulled == 2      \* rows pulled through the validating map
MaxCalls == 3       \* API calls on one Frame
MaxThreads == 2     \* threads calling Frame._scala on one Frame

sample_size_default == 100

(***************************************************************************)
(* Python values.  t is the runtime class, v the printed value, n the      *)
(* length of a list (0 for the scalars).                                   *)
(***************************************************************************)
PyValue(t, v, n) == [t |-> t, v |-> v, n |-> n]
None == PyValue("NoneType", "None", 0)
Int1 == PyValue("int", "1", 0)
Flt15 == PyValue("float", "1.5", 0)
StrA == PyValue("str", "a", 0)
Str1 == PyValue("str", "1", 0)
TrueV == PyValue("bool", "True", 0)
List2 == PyValue("list", "[1, 2]", 2)
List3 == PyValue("list", "[1, 2, 3]", 3)
\* sys.maxint + 1 on a 64-bit build: an integer python 2 can only hold as a long
BigLong == PyValue("long", "9223372036854775808", 0)
Date1 == PyValue("datetime", "2016-01-01 00:00:00", 0)

(***************************************************************************)
(* Data types of a schema: a python class, or dtypes.vector(n).            *)
(***************************************************************************)
PyType(k) == [k |-> k, n |-> 0]
vector(n) == [k |-> "vector", n |-> n]

\* Frame._infer_types_for_row: type(item), or vector(len(item)) for a list
_infer_types_for_row(row) ==
    [i \in 1..Len(row) |->
        IF row[i].t # "list" THEN PyType(row[i].t) ELSE vector(row[i].n)]

(***************************************************************************)
(* dtypes._DataTypes.merge_types: identical types merge to themselves,     *)
(* integers widen to the wider integer and to float, vectors of differing  *)
(* lengths fail, any other pair falls back to the string type.             *)
(***************************************************************************)
NumericRank(ty) ==
    CASE ty.k = "int" -> 1 [] ty.k = "long" -> 2 [] ty.k = "float" -> 3 [] OTHER -> 0

merge_types(type_a, type_b) ==
    IF type_a = type_b THEN [ok |-> TRUE, type |-> type_a]
    ELSE IF NumericRank(type_a) > 0 /\ NumericRank(type_b) > 0
    THEN [ok |-> TRUE,
          type |-> IF NumericRank(type_a) > NumericRank(type_b) THEN type_a ELSE type_b]
    ELSE IF type_a.k = "vector" /\ type_b.k = "vector"
    THEN [ok |-> FALSE, type |-> type_a]
    ELSE [ok |-> TRUE, type |-> PyType("str")]

(***************************************************************************)
(* Frame._merge_types: both arguments are lists here (the TypeError of     *)
(* line 46 needs a non-list, which _infer_schema never passes); lists of   *)
(* differing lengths raise ValueError; otherwise the column-wise merge,    *)
(* which raises what merge_types raises.                                   *)
(***************************************************************************)
_merge_types(type_list_a, type_list_b) ==
    IF Len(type_list_a) # Len(type_list_b)
    THEN [ok |-> FALSE, err |-> "ValueError", types |-> <<>>]
    ELSE LET merged == [i \in 1..Len(type_list_a) |->
                            merge_types(type_list_a[i], type_list_b[i])]
         IN  IF \E i \in 1..Len(type_list_a) : ~merged[i].ok
             THEN [ok |-> FALSE, err |-> "ValueError", types |-> <<>>]
             ELSE [ok |-> TRUE, err |-> "none",
                   types |-> [i \in 1..Len(type_list_a) |-> merged[i].type]]

\* variant of the loop that overwrites the running types with each row's
\* types instead of merging them
RECURSIVE merge_rows_overwrites(_, _, _, _)
merge_rows_overwrites(data_types, rows, i, sample_size) ==
    IF i >= sample_size THEN [ok |-> TRUE, err |-> "none", types |-> data_types]
    ELSE merge_rows_overwrites(_infer_types_for_row(rows[i + 1]), rows, i + 1, sample_size)

\* variant of the loop that merges every row of the data, whatever the
\* sample size
RECURSIVE merge_rows_to_the_end(_, _, _, _)
merge_rows_to_the_end(data_types, rows, i, sample_size) ==
    IF i >= Len(rows) THEN [ok |-> TRUE, err |-> "none", types |-> data_types]
    ELSE LET m == _merge_types(data_types, _infer_types_for_row(rows[i + 1]))
         IN  IF ~m.ok THEN m ELSE merge_rows_to_the_end(m.types, rows, i + 1, sample_size)

\* the loop of lines 92-93: rows data[1], ..., data[sample_size - 1] (0-based)
\* are merged into the running data_types, the first failure ending the loop
RECURSIVE merge_rows(_, _, _, _)
merge_rows(data_types, rows, i, sample_size) ==
    IF i >= sample_size THEN [ok |-> TRUE, err |-> "none", types |-> data_types]
    ELSE LET m == _merge_types(data_types, _infer_types_for_row(rows[i + 1]))
         IN  IF ~m.ok THEN m ELSE merge_rows(m.types, rows, i + 1, sample_size)

\* variant of the placeholder that numbers the columns from one
placeholder_name_from_one(i) == "C" \o ToString(i + 1)

\* "C%s" % i
placeholder_name(i) == "C" \o ToString(i)

\* lines 96-98: the name of column i (0-based)
column_name(i, column_names) ==
    IF Len(column_names) > i THEN column_names[i + 1] ELSE placeholder_name(i)

(***************************************************************************)
(* A schema argument or attribute: None, a list of bare names, or a list   *)
(* of (name, type) pairs kept as two parallel sequences.                   *)
(***************************************************************************)
SchemaNone == [form |-> "none", names |-> <<>>, types |-> <<>>]
SchemaNames(ns) == [form |-> "names", names |-> ns, types |-> <<>>]
SchemaFull(ns, ts) == [form |-> "full", names |-> ns, types |-> ts]

\* a python object given as data or held as a row source: cls is its class
\* ("list", "tuple", "RDD", ...), rows its rows; an RDD made by
\* pyrdd.map(validate) has mapped = TRUE and carries the schema bound to it
PyObj(cls, rs, mapped, vschema) ==
    [cls |-> cls, rows |-> rs, mapped |-> mapped, vschema |-> vschema]
ListData(rs) == PyObj("list", rs, FALSE, SchemaNone)
TupleData(rs) == PyObj("tuple", rs, FALSE, SchemaNone)

(***************************************************************************)
(* Frame._infer_schema(data, column_names=[], sample_size=100)             *)
(***************************************************************************)
_infer_schema(data, column_names, sample_size) ==
    IF data.cls # "list"
    THEN [ok |-> FALSE, err |-> "TypeError", schema |-> SchemaNone]
    ELSE IF Len(data.rows) = 0
    THEN [ok |-> TRUE, err |-> "none", schema |-> SchemaFull(<<>>, <<>>)]
    ELSE LET size == IF Len(data.rows) < sample_size THEN Len(data.rows) ELSE sample_size
             m == merge_rows(_infer_types_for_row(data.rows[1]), data.rows, 1, size)
         IN  IF ~m.ok THEN [ok |-> FALSE, err |-> m.err, schema |-> SchemaNone]
             ELSE [ok |-> TRUE, err |-> "none",
                   schema |-> SchemaFull(
                       [i \in 1..Len(m.types) |-> column_name(i - 1, column_names)],
                       m.types)]

(***************************************************************************)
(* Python's built-in conversions on the values of the model.  Each gives   *)
(* [ok, val]; ok = FALSE stands for the exception the built-in raises.     *)
(***************************************************************************)
Conv(ok, val) == [ok |-> ok, val |-> val]

\* the integer a number truncates to / a numeric string parses to
IntText(v) == CASE v = "1" -> "1" [] v = "1.0" -> "1" [] v = "1.5" -> "1"
                [] v = "True" -> "1" [] v = BigLong.v -> BigLong.v [] OTHER -> "0"
\* the float a number widens to / a numeric string parses to
FloatText(v) == CASE v = "1" -> "1.0" [] v = "1.0" -> "1.0" [] v = "1.5" -> "1.5"
                  [] v = "True" -> "1.0" [] v = BigLong.v -> "9.223372036854776e+18"
                  [] OTHER -> "0.0"
IntLiterals == {"1"}
FloatLiterals == {"1", "1.0", "1.5"}

\* the class of the object int() / long() returns: python 2's int() gives a
\* long when the number does not fit a plain int
int_class(cls, text) == IF cls = "int" /\ text = BigLong.v THEN "long" ELSE cls

\* int(x) (cls = "int") and long(x) (cls = "long")
py_int(x, cls) ==
    IF x.t \in {"int", "long", "bool", "float"}
    THEN Conv(TRUE, PyValue(int_class(cls, IntText(x.v)), IntText(x.v), 0))
    ELSE IF x.t \in {"str", "unicode"} /\ x.v \in IntLiterals
    THEN Conv(TRUE, PyValue(int_class(cls, IntText(x.v)), IntText(x.v), 0))
    ELSE Conv(FALSE, None)

py_float(x) ==
    IF x.t \in {"int", "long", "bool", "float"} THEN Conv(TRUE, PyValue("float", FloatText(x.v), 0))
    ELSE IF x.t \in {"str", "unicode"} /\ x.v \in FloatLiterals
    THEN Conv(TRUE, PyValue("float", FloatText(x.v), 0))
    ELSE Conv(FALSE, None)

\* str(x) / unicode(x): the printed value, for every value of the model
py_str(x, cls) == Conv(TRUE, PyValue(cls, x.v, 0))

\* dtypes.vector(n).constructor: a sequence of n numbers is taken as the
\* vector, anything else fails
vector_constructor(n, x) ==
    IF x.t = "list" /\ x.n = n THEN Conv(TRUE, x) ELSE Conv(FALSE, None)

\* isinstance(x, data_type) for a python class (bool is a subclass of int)
isinstance(x, data_type) ==
    \/ x.t = data_type.k
    \/ x.t = "bool" /\ data_type.k = "int"

(***************************************************************************)
(* One cell of validate_schema (lines 112-156): raises = TRUE is the       *)
(* RuntimeError of line 152; nulled = TRUE marks a conversion that failed  *)
(* and was replaced by None.                                               *)
(***************************************************************************)
Cell(raises, val, nulled) == [raises |-> raises, val |-> val, nulled |-> nulled]

\* variant of the try/except around a conversion that lets the exception out
Tried_lets_exception_out(c) ==
    IF c.ok THEN Cell(FALSE, c.val, FALSE) ELSE Cell(TRUE, None, FALSE)

\* try: data.append(<conversion>)  except: data.append(None)
Tried(c) == IF c.ok THEN Cell(FALSE, c.val, FALSE) ELSE Cell(FALSE, None, TRUE)

\* variant of the column loop without the branch for long
cast_cell_without_long(x, data_type) ==
    IF data_type.k = "vector" THEN Tried(vector_constructor(data_type.n, x))
    ELSE IF ~isinstance(x, data_type)
    THEN CASE data_type.k = "int" -> Tried(py_int(x, "int"))
           [] data_type.k = "float" -> Tried(py_float(x))
           [] data_type.k = "str" -> Tried(py_str(x, "str"))
           [] data_type.k = "unicode" -> Tried(py_str(x, "unicode"))
           [] OTHER -> Cell(TRUE, None, FALSE)
    ELSE Cell(FALSE, x, FALSE)

cast_cell(x, data_type) ==
    IF data_type.k = "vector" THEN Tried(vector_constructor(data_type.n, x))
    ELSE IF ~isinstance(x, data_type)
    THEN CASE data_type.k = "int" -> Tried(py_int(x, "int"))
           [] data_type.k = "long" -> Tried(py_int(x, "long"))
           [] data_type.k = "float" -> Tried(py_float(x))
           [] data_type.k = "str" -> Tried(py_str(x, "str"))
           [] data_type.k = "unicode" -> Tried(py_str(x, "unicode"))
           [] OTHER -> Cell(TRUE, None, FALSE)
    ELSE Cell(FALSE, x, FALSE)

(***************************************************************************)
(* validate_schema(row, schema), the function mapped over the RDD          *)
(* (lines 106-157).  A schema that is a list of bare names has no          *)
(* column[1] that is a class: isinstance raises TypeError on it.           *)
(***************************************************************************)
Validated(ok, err, data, nulled) ==
    [ok |-> ok, err |-> err, data |-> data, nulled |-> nulled]

\* variant of validate_schema without the length test: a row of another
\* length is handed on as it is
validate_schema_keeps_any_length(row, schema) ==
    Validated(TRUE, "none", row, FALSE)

validate_schema(row, schema) ==
    IF Len(row) # Len(schema.names) THEN Validated(FALSE, "ValueError", <<>>, FALSE)
    ELSE IF schema.form # "full" /\ Len(row) > 0
    THEN Validated(FALSE, "TypeError", <<>>, FALSE)
    ELSE LET cells == [i \in 1..Len(row) |-> cast_cell(row[i], schema.types[i])]
         IN  IF \E i \in 1..Len(row) : cells[i].raises
             THEN Validated(FALSE, "RuntimeError", <<>>, FALSE)
             ELSE Validated(TRUE, "none", [i \in 1..Len(row) |-> cells[i].val],
                            \E i \in 1..Len(row) : cells[i].nulled)

(***************************************************************************)
(* validate_pyrdd_schema(pyrdd, schema): the lazily mapped RDD, or         *)
(* TypeError for something that is not an RDD.  Nothing is validated here. *)
(***************************************************************************)
\* variant of validate_pyrdd_schema that looks through the declared types
\* before it maps and raises for one it has no conversion for
validate_pyrdd_schema_checks_types(pyrdd, schema) ==
    IF pyrdd.cls # "RDD" THEN [ok |-> FALSE, err |-> "TypeError", rdd |-> pyrdd]
    ELSE IF \E i \in 1..Len(schema.types) :
                schema.types[i].k \notin {"int", "long", "float", "str", "unicode", "vector"}
    THEN [ok |-> FALSE, err |-> "RuntimeError", rdd |-> pyrdd]
    ELSE [ok |-> TRUE, err |-> "none", rdd |-> PyObj("RDD", pyrdd.rows, TRUE, schema)]

validate_pyrdd_schema(pyrdd, schema) ==
    IF pyrdd.cls = "RDD"
    THEN [ok |-> TRUE, err |-> "none", rdd |-> PyObj("RDD", pyrdd.rows, TRUE, schema)]
    ELSE [ok |-> FALSE, err |-> "TypeError", rdd |-> pyrdd]

\* a Spark action on the RDD (count, collect, take): the mapped function runs
\* row by row and the first exception ends the job
RECURSIVE run_rows(_, _, _)
run_rows(rows, schema, acc) ==
    IF rows = <<>> THEN [ok |-> TRUE, err |-> "none", rows |-> acc]
    ELSE LET r == validate_schema(Head(rows), schema)
         IN  IF ~r.ok THEN [ok |-> FALSE, err |-> r.err, rows |-> acc]
             ELSE run_rows(Tail(rows), schema, Append(acc, r.data))

collect(pyrdd) ==
    IF pyrdd.mapped THEN run_rows(pyrdd.rows, pyrdd.vschema, <<>>)
    ELSE [ok |-> TRUE, err |-> "none", rows |-> pyrdd.rows]

(***************************************************************************)
(* Objects.  Every python or JVM object the Frame handles is a record:     *)
(* cls its class ("PythonFrame", "ScalaFrame", "ScalaRDD", "RDD", "list",  *)
(* "tuple"), id its identity, schema the schema a frame carries, rdd its   *)
(* rows.                                                                   *)
(***************************************************************************)
Object(cls, id, sch, rows) == [cls |-> cls, id |-> id, schema |-> sch, rdd |-> rows]
NoObject == Object("none", 0, SchemaNone, PyObj("none", <<>>, FALSE, SchemaNone))

\* PythonFrame(rdd, schema)
PythonFrame(id, pyrdd, sch) == Object("PythonFrame", id, sch, pyrdd)

_is_scala_frame(item) == item.cls = "ScalaFrame"
is_scala_rdd(item) == item.cls = "ScalaRDD"
is_python_rdd(item) == item.cls = "RDD"

\* variant of _is_scala that tests for a Scala RDD instead of a Scala Frame
_is_scala_tests_rdd(fr) == is_scala_rdd(fr)

\* Frame._is_scala / Frame._is_python of a Frame whose _frame is fr
_is_scala(fr) == _is_scala_frame(fr)
\* variant of _is_python that is true of whatever is stored
_is_python_of_any_frame(fr) == TRUE

_is_python(fr) == ~_is_scala(fr)

(***************************************************************************)
(* sparktk.frame.schema: the schema conversions of the engine bridge.  The *)
(* engine names its types; a schema that is not a list of (name, type)     *)
(* pairs cannot be converted.                                              *)
(***************************************************************************)
EngineType(ty) ==
    IF ty.k = "vector" THEN ty
    ELSE PyType(CASE ty.k = "int" -> "int32" [] ty.k = "long" -> "int64"
                  [] ty.k = "float" -> "float64" [] ty.k = "str" -> "string"
                  [] ty.k = "unicode" -> "unicode" [] ty.k = "bool" -> "boolean"
                  [] OTHER -> "unknown")
PythonType(ty) ==
    IF ty.k = "vector" THEN ty
    ELSE PyType(CASE ty.k = "int32" -> "int" [] ty.k = "int64" -> "long"
                  [] ty.k = "float64" -> "float" [] ty.k = "string" -> "str"
                  [] ty.k = "unicode" -> "unicode" [] ty.k = "boolean" -> "bool"
                  [] OTHER -> "unknown")

schema_to_scala(sch) ==
    IF sch.form # "full" /\ (sch.form = "none" \/ Len(sch.names) > 0)
    THEN [ok |-> FALSE, schema |-> SchemaNone]
    ELSE [ok |-> TRUE,
          schema |-> [form |-> "scala", names |-> sch.names,
                      types |-> [i \in 1..Len(sch.types) |-> EngineType(sch.types[i])]]]

schema_to_python(sch) ==
    SchemaFull(sch.names, [i \in 1..Len(sch.types) |-> PythonType(sch.types[i])])

\* PythonJavaRdd.pythonToScala / scalaToPython: the same rows on the other side
pythonToScala(pyrdd) == [pyrdd EXCEPT !.cls = "ScalaRDD"]
scalaToPython(srdd) == [srdd EXCEPT !.cls = "RDD"]

\* Frame.create_scala_frame: the constructor call in the JVM
create_scala_frame(id, scala_rdd, scala_schema) ==
    Object("ScalaFrame", id, scala_schema, scala_rdd)

(***************************************************************************)
(* The outcome of a call on the Frame: the backend stored afterwards, the  *)
(* next free identity, whether it returned (ok) or raised (err, and failed *)
(* names the bridge step that raised), the bridge steps it ran, how many   *)
(* Scala frames _scala created, and the number row_count returned (-1 for  *)
(* every other call and for a row_count that raised).                      *)
(***************************************************************************)
Outcome(fr, nid, ok, err, failed, steps, created) ==
    [frame |-> fr, nextId |-> nid, ok |-> ok, err |-> err, failed |-> failed,
     steps |-> steps, created |-> created, count |-> -1]

Raised(fr, nid, failed, steps) ==
    Outcome(fr, nid, FALSE, "EngineBridgeError", failed, steps, 0)

PromoteSteps == <<"schema_to_scala", "pythonToScala", "create_scala_frame">>
DemoteSteps == <<"scala_schema", "scalaToPython", "schema_to_python", "PythonFrame">>
BridgeSteps ==
    {PromoteSteps[i] : i \in 1..3} \cup {DemoteSteps[i] : i \in 1..4} \cup {"engine_op"}
Failures == BridgeSteps \cup {"none"}

\* variant of _scala without the "if self._is_python" test: it converts
\* whatever is stored
_scala_always_converts(fr, nid, fail) ==
    LET scala_schema == schema_to_scala(fr.schema)
        scala_rdd == pythonToScala(fr.rdd)
    IN  IF fail = "schema_to_scala" \/ ~scala_schema.ok
        THEN Raised(fr, nid, "schema_to_scala", SubSeq(PromoteSteps, 1, 1))
        ELSE IF fail = "pythonToScala"
        THEN Raised(fr, nid, "pythonToScala", SubSeq(PromoteSteps, 1, 2))
        ELSE IF fail = "create_scala_frame"
        THEN Raised(fr, nid, "create_scala_frame", PromoteSteps)
        ELSE Outcome(create_scala_frame(nid, scala_rdd, scala_schema.schema),
                     nid + 1, TRUE, "none", "none", PromoteSteps, 1)

\* variant of _scala that stores the Scala RDD in self._frame before the
\* Scala frame is created around it
_scala_stores_rdd_first(fr, nid, fail) ==
    IF ~_is_scala_frame(fr)
    THEN LET scala_schema == schema_to_scala(fr.schema)
             scala_rdd == pythonToScala(fr.rdd)
         IN  IF fail = "schema_to_scala" \/ ~scala_schema.ok
             THEN Raised(fr, nid, "schema_to_scala", SubSeq(PromoteSteps, 1, 1))
             ELSE IF fail = "pythonToScala"
             THEN Raised(fr, nid, "pythonToScala", SubSeq(PromoteSteps, 1, 2))
             ELSE IF fail = "create_scala_frame"
             THEN Raised(Object("ScalaRDD", fr.id, scala_schema.schema, scala_rdd), nid,
                         "create_scala_frame", PromoteSteps)
             ELSE Outcome(create_scala_frame(nid, scala_rdd, scala_schema.schema),
                          nid + 1, TRUE, "none", "none", PromoteSteps, 1)
    ELSE Outcome(fr, nid, TRUE, "none", "none", <<>>, 0)

(***************************************************************************)
(* Frame._scala (lines 197-205); fail names the bridge step that raises if *)
(* the call reaches it.  self._frame is assigned by the last statement of  *)
(* the conversion.                                                         *)
(***************************************************************************)
_scala(fr, nid, fail) ==
    IF _is_python(fr)
    THEN LET scala_schema == schema_to_scala(fr.schema)
             scala_rdd == pythonToScala(fr.rdd)
         IN  IF fail = "schema_to_scala" \/ ~scala_schema.ok
             THEN Raised(fr, nid, "schema_to_scala", SubSeq(PromoteSteps, 1, 1))
             ELSE IF fail = "pythonToScala"
             THEN Raised(fr, nid, "pythonToScala", SubSeq(PromoteSteps, 1, 2))
             ELSE IF fail = "create_scala_frame"
             THEN Raised(fr, nid, "create_scala_frame", PromoteSteps)
             ELSE Outcome(create_scala_frame(nid, scala_rdd, scala_schema.schema),
                          nid + 1, TRUE, "none", "none", PromoteSteps, 1)
    ELSE Outcome(fr, nid, TRUE, "none", "none", <<>>, 0)

(***************************************************************************)
(* Frame._python (lines 207-217)                                           *)
(***************************************************************************)
_python(fr, nid, fail) ==
    IF _is_scala(fr)
    THEN LET scala_schema == fr.schema
             java_rdd == scalaToPython(fr.rdd)
             python_schema == schema_to_python(scala_schema)
         IN  IF fail = "scala_schema"
             THEN Raised(fr, nid, "scala_schema", SubSeq(DemoteSteps, 1, 1))
             ELSE IF fail = "scalaToPython"
             THEN Raised(fr, nid, "scalaToPython", SubSeq(DemoteSteps, 1, 2))
             ELSE IF fail = "schema_to_python"
             THEN Raised(fr, nid, "schema_to_python", SubSeq(DemoteSteps, 1, 3))
             ELSE IF fail = "PythonFrame"
             THEN Raised(fr, nid, "PythonFrame", DemoteSteps)
             ELSE Outcome(PythonFrame(nid, java_rdd, python_schema),
                          nid + 1, TRUE, "none", "none", DemoteSteps, 0)
    ELSE Outcome(fr, nid, TRUE, "none", "none", <<>>, 0)

(***************************************************************************)
(* The record kept of the last call: its name and arguments, the backend   *)
(* stored before it (pre), its outcome, the backend kind it asked for      *)
(* (want) and the identity of the backend object it was handed (ret, -1    *)
(* when it was handed none).                                               *)
(***************************************************************************)
Call(op, want, src, sch, val, pre, o, ret) ==
    [op |-> op, want |-> want, src |-> src, sch |-> sch, val |-> val, pre |-> pre,
     ok |-> o.ok, err |-> o.err, failed |-> o.failed, steps |-> o.steps, ret |-> ret,
     count |-> o.count]

NoCall ==
    Call("none", "none", NoObject, SchemaNone, FALSE, NoObject,
         Outcome(NoObject, 1, TRUE, "none", "none", <<>>, 0), -1)

\* python truth value of a schema argument: None and [] are false
truthy(sch) == sch.form # "none" /\ Len(sch.names) > 0
\* isinstance(schema, list)
is_list(sch) == sch.form # "none"
\* all(isinstance(item, basestring) for item in schema)
all_names(sch) == sch.form = "names" \/ Len(sch.names) = 0

\* tc.sc.parallelize(source)
parallelize(source) == PyObj("RDD", source.rdd.rows, FALSE, SchemaNone)

(***************************************************************************)
(* Frame.__init__ (lines 15-34), as the outcome of the constructor.        *)
(***************************************************************************)
\* variant of the schema resolution that drops the requested names
resolve_schema_without_names(source, sch) ==
    IF ~is_python_rdd(source)
    THEN IF is_list(sch) /\ ~all_names(sch)
         THEN [ok |-> TRUE, err |-> "none", schema |-> sch]
         ELSE _infer_schema(source.rdd, <<>>, sample_size_default)
    ELSE [ok |-> TRUE, err |-> "none", schema |-> sch]

resolve_schema(source, sch) ==
    IF ~is_python_rdd(source)
    THEN IF is_list(sch)
         THEN IF all_names(sch)
              THEN _infer_schema(source.rdd, sch.names, sample_size_default)
              ELSE [ok |-> TRUE, err |-> "none", schema |-> sch]
         ELSE _infer_schema(source.rdd, <<>>, sample_size_default)
    ELSE [ok |-> TRUE, err |-> "none", schema |-> sch]

local_rdd(source, sch, validate) ==
    LET pyrdd == IF ~is_python_rdd(source) THEN parallelize(source) ELSE source.rdd
    IN  IF truthy(sch) /\ validate
        THEN validate_pyrdd_schema(pyrdd, sch).rdd
        ELSE pyrdd

\* variant of the first branch that stores a copy of the Scala frame
adopt_copy_of_scala_frame(source, nid) ==
    Outcome([source EXCEPT !.id = nid], nid + 1, TRUE, "none", "none", <<>>, 0)

\* lines 17-18: a Scala frame is stored as it is
adopt_scala_frame(source, nid) == Outcome(source, nid, TRUE, "none", "none", <<>>, 0)

\* lines 19-21: a Scala frame is created around a Scala RDD
from_scala_rdd(source, sch, nid, fail) ==
    LET scala_schema == schema_to_scala(sch)
    IN  IF fail = "schema_to_scala" \/ ~scala_schema.ok
        THEN Raised(NoObject, nid, "schema_to_scala", <<"schema_to_scala">>)
        ELSE IF fail = "create_scala_frame"
        THEN Raised(NoObject, nid, "create_scala_frame",
                    <<"schema_to_scala", "create_scala_frame">>)
        ELSE Outcome(create_scala_frame(nid, source.rdd, scala_schema.schema),
                     nid + 1, TRUE, "none", "none",
                     <<"schema_to_scala", "create_scala_frame">>, 0)

\* lines 22-34: a PythonFrame over the (parallelized, validated) data
from_python(source, sch, validate, nid) ==
    LET resolved == resolve_schema(source, sch)
    IN  IF ~resolved.ok
        THEN Outcome(NoObject, nid, FALSE, resolved.err, "none", <<>>, 0)
        ELSE Outcome(PythonFrame(nid, local_rdd(source, resolved.schema, validate),
                                 resolved.schema),
                     nid + 1, TRUE, "none", "none", <<>>, 0)

Frame_init(source, sch, validate, nid, fail) ==
    IF _is_scala_frame(source) THEN adopt_scala_frame(source, nid)
    ELSE IF is_scala_rdd(source) THEN from_scala_rdd(source, sch, nid, fail)
    ELSE from_python(source, sch, validate, nid)

(***************************************************************************)
(* The arguments the constructor is given in Spec.                         *)
(***************************************************************************)
EmptyList == SchemaFull(<<>>, <<>>)
FrameRows ==
    {<<>>, <<<<Int1>>>>, <<<<StrA>>>>, <<<<Int1>>, <<Flt15>>>>, <<<<Int1>>, <<StrA>>>>,
     <<<<Int1, StrA>>, <<Flt15, StrA>>>>, <<<<Int1>>, <<Int1, StrA>>>>,
     <<<<List2>>, <<List3>>>>}
Sources ==
    {Object("ScalaFrame", 0, schema_to_scala(SchemaFull(<<"a">>, <<PyType("int")>>)).schema,
            PyObj("ScalaRDD", <<<<Int1>>>>, FALSE, SchemaNone)),
     Object("ScalaRDD", 0, SchemaNone, PyObj("ScalaRDD", <<<<Int1>>>>, FALSE, SchemaNone)),
     Object("RDD", 0, SchemaNone, PyObj("RDD", <<<<Int1>>>>, FALSE, SchemaNone)),
     Object("RDD", 0, SchemaNone, PyObj("RDD", <<<<StrA, Int1>>>>, FALSE, SchemaNone)),
     Object("tuple", 0, SchemaNone, TupleData(<<<<Int1>>>>))}
    \cup {Object("list", 0, SchemaNone, ListData(rs)) : rs \in FrameRows}
SchemaArgs ==
    {SchemaNone, EmptyList, SchemaNames(<<"number">>), SchemaNames(<<"number", "letter">>),
     SchemaFull(<<"col_a">>, <<PyType("int")>>),
     SchemaFull(<<"col_a">>, <<PyType("bool")>>),
     SchemaFull(<<"col_a", "col_b">>, <<PyType("float"), PyType("str")>>)}

(***************************************************************************)
(* Actions of Spec.                                                        *)
(***************************************************************************)
Untouched == UNCHANGED <<icall, vcall, threads>>

__init__ ==
    /\ pc = "new"
    /\ last.op = "none"
    /\ \E source \in Sources, sch \in SchemaArgs, validate \in BOOLEAN, fail \in Failures :
          LET o == Frame_init(source, sch, validate, nextId, fail)
          IN  /\ pc' = IF o.ok THEN "ready" ELSE "new"
              /\ _frame' = o.frame
              /\ nextId' = o.nextId
              /\ last' = Call("__init__", "none", source, sch, validate, _frame, o,
                              IF o.ok THEN o.frame.id ELSE -1)
    /\ UNCHANGED <<ncalls, promotions>>
    /\ Untouched

\* an API call with outcome o leaves the Frame as o says
Returns(op, want, o, ret) ==
    /\ _frame' = o.frame
    /\ nextId' = o.nextId
    /\ promotions' = promotions + o.created
    /\ ncalls' = ncalls + 1
    /\ last' = Call(op, want, NoObject, SchemaNone, FALSE, _frame, o, ret)
    /\ UNCHANGED pc
    /\ Untouched

Callable == pc = "ready" /\ ncalls < MaxCalls

\* the engine call made on the handle a successful self._scala returned
engine_call(o, fail) ==
    IF ~o.ok THEN o
    ELSE IF fail = "engine_op"
    THEN [o EXCEPT !.ok = FALSE, !.err = "EngineBridgeError", !.failed = "engine_op",
                   !.steps = Append(@, "engine_op")]
    ELSE [o EXCEPT !.steps = Append(@, "engine_op")]

\* the id of the backend object a backend request handed back
handed(request) == IF request.ok THEN request.frame.id ELSE -1

\* variant of rdd that reads self._frame.rdd without asking for self._python
rdd_of_stored_frame(fr, nid, fail) == Outcome(fr, nid, TRUE, "none", "none", <<>>, 0)

\* Frame.rdd (lines 223-226): self._python.rdd
rdd_outcome(fr, nid, fail) == _python(fr, nid, fail)
rdd ==
    /\ Callable
    /\ \E fail \in Failures :
          LET o == rdd_outcome(_frame, nextId, fail)
          IN  Returns("rdd", "python", o, handed(o))

\* Frame.schema (lines 228-232)
schema_outcome(fr, nid, fail) ==
    IF _is_scala(fr)
    THEN IF fail = "scala_schema"
         THEN Raised(fr, nid, "scala_schema", <<"scala_schema">>)
         ELSE IF fail = "schema_to_python"
         THEN Raised(fr, nid, "schema_to_python", <<"scala_schema", "schema_to_python">>)
         ELSE Outcome(fr, nid, TRUE, "none", "none",
                      <<"scala_schema", "schema_to_python">>, 0)
    ELSE Outcome(fr, nid, TRUE, "none", "none", <<>>, 0)
schema ==
    /\ Callable
    /\ \E fail \in Failures :
          Returns("schema", "none", schema_outcome(_frame, nextId, fail), -1)

\* Frame.column_names (lines 234-252): the names of self.schema
column_names_outcome(fr, nid, fail) == schema_outcome(fr, nid, fail)
column_names ==
    /\ Callable
    /\ \E fail \in Failures :
          Returns("column_names", "none", column_names_outcome(_frame, nextId, fail), -1)

\* variant of row_count that always counts in the engine: self._scala.rowCount()
row_count_in_engine(fr, nid, fail) == engine_call(_scala(fr, nid, fail), fail)

\* Frame.row_count (lines 254-279): the engine's rowCount() or the RDD's
\* count(); either runs the function mapped over the rows, whose first
\* exception ends the count
row_count_outcome(fr, nid, fail) ==
    IF _is_scala(fr)
    THEN LET o == engine_call(_scala(fr, nid, fail), fail)
             counted == collect(o.frame.rdd)
         IN  IF ~o.ok THEN o
             ELSE IF ~counted.ok THEN [o EXCEPT !.ok = FALSE, !.err = counted.err]
             ELSE [o EXCEPT !.count = Len(counted.rows)]
    ELSE LET o == rdd_outcome(fr, nid, fail)
             counted == collect(o.frame.rdd)
         IN  IF ~o.ok THEN o
             ELSE IF ~counted.ok THEN [o EXCEPT !.ok = FALSE, !.err = counted.err]
             ELSE [o EXCEPT !.count = Len(counted.rows)]
row_count ==
    /\ Callable
    /\ \E fail \in Failures :
          Returns("row_count", "none", row_count_outcome(_frame, nextId, fail), -1)

\* an operation written as self._scala.<engine method>(...):
\* classification_metrics (ops/classification_metrics.py), append_csv_file
\* and export_to_csv (frame.py lines 281-285)
scala_operation(fr, nid, fail) == engine_call(_scala(fr, nid, fail), fail)

classification_metrics ==
    /\ Callable
    /\ \E fail \in Failures :
          Returns("classification_metrics", "scala",
                  scala_operation(_frame, nextId, fail), handed(_scala(_frame, nextId, fail)))

append_csv_file ==
    /\ Callable
    /\ \E fail \in Failures :
          Returns("append_csv_file", "scala",
                  scala_operation(_frame, nextId, fail), handed(_scala(_frame, nextId, fail)))

export_to_csv ==
    /\ Callable
    /\ \E fail \in Failures :
          Returns("export_to_csv", "scala",
                  scala_operation(_frame, nextId, fail), handed(_scala(_frame, nextId, fail)))

NoInfer ==
    [data |-> ListData(<<>>), names |-> <<>>, sample |-> 0, done |-> FALSE,
     res |-> [ok |-> FALSE, err |-> "pending", schema |-> SchemaNone]]
NoValidate ==
    [cls |-> "none", schema |-> SchemaNone, bound |-> FALSE, err |-> "none", pulled |-> 0,
     row |-> <<>>, out |-> Validated(TRUE, "none", <<>>, FALSE), prev_nulled |-> FALSE]

(***************************************************************************)
(* SpecInfer: _infer_schema applied to a data list, requested names and a  *)
(* sample size drawn at the start.                                         *)
(***************************************************************************)
SeqsUpTo(S, n) == UNION {[1..k -> S] : k \in 0..n}

InferValues == {Int1, Flt15, StrA, TrueV, List2, List3}
NarrowData == SeqsUpTo({<<v>> : v \in InferValues}, MaxRows)
WideData == SeqsUpTo(SeqsUpTo({Int1, Flt15}, MaxCols), MaxWideRows)
AllNames == <<"number", "letter", "decimal", "name", "age", "shoe_size">>
NameLists == {SubSeq(AllNames, 1, k) : k \in 0..MaxNames}
Samples == (1..MaxRows) \cup {sample_size_default}

InferCall(data, names, sample) ==
    [data |-> data, names |-> names, sample |-> sample, done |-> FALSE,
     res |-> [ok |-> FALSE, err |-> "pending", schema |-> SchemaNone]]

\* the data of test_create_with_schema_validation: as many integer rows as
\* the default sample holds, then rows of strings
IntsThenStrings ==
    [i \in 1..(sample_size_default + MaxRows) |->
        IF i <= sample_size_default THEN <<Int1>> ELSE <<StrA>>]

InferInputs ==
    {InferCall(ListData(d), <<>>, n) : d \in NarrowData, n \in Samples}
    \cup {InferCall(ListData(d), ns, sample_size_default) : d \in WideData, ns \in NameLists}
    \cup {InferCall(ListData(d), <<>>, n) : d \in WideData, n \in 1..MaxWideRows}
    \cup {InferCall(ListData(IntsThenStrings), <<>>, sample_size_default)}
    \cup {InferCall(TupleData(<<<<Int1>>>>), ns, sample_size_default) : ns \in NameLists}

infer_schema_call ==
    /\ ~icall.done
    /\ icall' = [icall EXCEPT !.done = TRUE,
                              !.res = _infer_schema(icall.data, icall.names, icall.sample)]
    /\ UNCHANGED <<pc, _frame, nextId, ncalls, promotions, last, vcall, threads>>

(***************************************************************************)
(* SpecValidate: validate_pyrdd_schema binds a schema drawn at the start   *)
(* to an RDD; the rows of the RDD then go through the mapped function one  *)
(* at a time, until it raises.                                             *)
(***************************************************************************)
ValidateTypes ==
    {PyType("int"), PyType("long"), PyType("float"), PyType("str"), PyType("unicode"),
     PyType("bool"), PyType("datetime"), vector(2)}
WideTypes == {PyType("int"), PyType("float"), PyType("bool")}
ValidateValues == {Int1, Flt15, StrA, Str1, TrueV, List2, List3, None, BigLong, Date1}
WideValues == {StrA, Int1, Flt15}

ValidateSchemas ==
    {SchemaFull(<<"a">>, <<ty>>) : ty \in ValidateTypes}
    \cup UNION {{SchemaFull(SubSeq(AllNames, 1, k), ts) : ts \in [1..k -> WideTypes]} :
                  k \in 0..MaxCols}
ValidateRows == {<<v>> : v \in ValidateValues} \cup SeqsUpTo(WideValues, MaxCols)

validate_bind ==
    /\ ~vcall.bound
    /\ vcall.err = "none"
    /\ LET r == validate_pyrdd_schema(PyObj(vcall.cls, <<>>, FALSE, SchemaNone),
                                      vcall.schema)
       IN  vcall' = [vcall EXCEPT !.bound = r.ok /\ r.rdd.mapped, !.err = r.err]
    /\ UNCHANGED <<pc, _frame, nextId, ncalls, promotions, last, icall, threads>>

validate_row ==
    /\ vcall.bound
    /\ vcall.out.ok
    /\ vcall.pulled < MaxPulled
    /\ \E row \in ValidateRows :
          vcall' = [vcall EXCEPT !.row = row,
                                !.out = validate_schema(row, vcall.schema),
                                !.pulled = @ + 1,
                                !.prev_nulled = @ \/ vcall.out.nulled]
    /\ UNCHANGED <<pc, _frame, nextId, ncalls, promotions, last, icall, threads>>

(***************************************************************************)
(* SpecThreads: Frame._scala (lines 197-205) run by several threads on one *)
(* Frame, one statement (and, for line 204, the call and the assignment)   *)
(* at a time.  Each statement reads self._frame anew; the code takes no    *)
(* lock.  serialized says whether the callers keep the calls on the Frame  *)
(* apart: a call then starts only when no other call is under way.         *)
(***************************************************************************)
Threads == 1..MaxThreads

IdleThread ==
    [pc |-> "idle", scala_schema |-> SchemaNone,
     scala_rdd |-> PyObj("none", <<>>, FALSE, SchemaNone), made |-> NoObject, ret |-> -1]

ThreadsAt(serialized, first) ==
    [serialized |-> serialized, first |-> first, t |-> [i \in Threads |-> IdleThread]]
NoThreads == ThreadsAt(TRUE, NoObject)

\* the Frames the threads share: built by the constructor
ThreadFrames ==
    {Frame_init(source, SchemaNone, FALSE, 1, "none").frame :
        source \in {Object("list", 0, SchemaNone, ListData(<<<<Int1>>>>)),
                    Object("list", 0, SchemaNone,
                           ListData(<<<<Int1, StrA>>, <<Flt15, StrA>>>>)),
                    Object("ScalaFrame", 0,
                           schema_to_scala(SchemaFull(<<"a">>, <<PyType("int")>>)).schema,
                           PyObj("ScalaRDD", <<<<Int1>>>>, FALSE, SchemaNone))}}

\* the thread is inside _scala
Running(th) == th.pc \notin {"idle", "done", "raised"}

\* the caller of thread t may start its call
may_call(t) ==
    threads.serialized => \A u \in Threads \ {t} : ~Running(threads.t[u])

ThreadStep(t, th) ==
    /\ threads' = [threads EXCEPT !.t[t] = th]
    /\ UNCHANGED <<pc, ncalls, last, icall, vcall>>

\* line 200: if self._is_python
scala_if_is_python ==
    \E t \in Threads :
        /\ threads.t[t].pc = "idle"
        /\ may_call(t)
        /\ ThreadStep(t, [threads.t[t] EXCEPT
                             !.pc = IF _is_python(_frame) THEN "schema_to_scala"
                                    ELSE "return"])
        /\ UNCHANGED <<_frame, nextId, promotions>>

\* line 202: scala_schema = schema_to_scala(self._tc.sc, self._frame.schema);
\* on a Scala frame .schema is a method of the JVM object, which
\* schema_to_scala cannot go through
scala_schema_to_scala ==
    \E t \in Threads :
        /\ threads.t[t].pc = "schema_to_scala"
        /\ LET converted == schema_to_scala(_frame.schema)
           IN  IF _is_scala_frame(_frame) \/ ~converted.ok
               THEN ThreadStep(t, [threads.t[t] EXCEPT !.pc = "raised"])
               ELSE ThreadStep(t, [threads.t[t] EXCEPT !.pc = "pythonToScala",
                                                      !.scala_schema = converted.schema])
        /\ UNCHANGED <<_frame, nextId, promotions>>

\* line 203: scala_rdd = ...pythonToScala(self._frame.rdd._jrdd, scala_schema);
\* a Scala frame has no .rdd._jrdd
scala_pythonToScala ==
    \E t \in Threads :
        /\ threads.t[t].pc = "pythonToScala"
        /\ IF _is_scala_frame(_frame)
           THEN ThreadStep(t, [threads.t[t] EXCEPT !.pc = "raised"])
           ELSE ThreadStep(t, [threads.t[t] EXCEPT !.pc = "create_scala_frame",
                                                  !.scala_rdd = pythonToScala(_frame.rdd)])
        /\ UNCHANGED <<_frame, nextId, promotions>>

\* line 204, right-hand side: self.create_scala_frame(sc, scala_rdd, scala_schema)
scala_create_scala_frame ==
    \E t \in Threads :
        /\ threads.t[t].pc = "create_scala_frame"
        /\ ThreadStep(t, [threads.t[t] EXCEPT
                             !.pc = "assign",
                             !.made = create_scala_frame(nextId, threads.t[t].scala_rdd,
                                                         threads.t[t].scala_schema)])
        /\ nextId' = nextId + 1
        /\ promotions' = promotions + 1
        /\ UNCHANGED _frame

\* line 204, assignment: self._frame = <the Scala frame just created>
scala_assign ==
    \E t \in Threads :
        /\ threads.t[t].pc = "assign"
        /\ _frame' = threads.t[t].made
        /\ ThreadStep(t, [threads.t[t] EXCEPT !.pc = "return"])
        /\ UNCHANGED <<nextId, promotions>>

\* line 205: return self._frame
scala_return ==
    \E t \in Threads :
        /\ threads.t[t].pc = "return"
        /\ ThreadStep(t, [threads.t[t] EXCEPT !.pc = "done", !.ret = _frame.id])
        /\ UNCHANGED <<_frame, nextId, promotions>>

FrameNew ==
    /\ threads = NoThreads
    /\ pc = "new"
    /\ _frame = NoObject
    /\ nextId = 1
    /\ ncalls = 0
    /\ promotions = 0
    /\ last = NoCall

Init == FrameNew /\ icall = NoInfer /\ vcall = NoValidate

InitInfer == FrameNew /\ icall \in InferInputs /\ vcall = NoValidate
NextInfer == infer_schema_call
SpecInfer == InitInfer /\ [][NextInfer]_vars

InitValidate ==
    /\ FrameNew
    /\ icall = NoInfer
    /\ vcall \in {[NoValidate EXCEPT !.cls = c, !.schema = sch] :
                     c \in {"RDD", "list"}, sch \in ValidateSchemas}
NextValidate == validate_bind \/ validate_row
SpecValidate == InitValidate /\ [][NextValidate]_vars

InitThreads ==
    /\ pc = "ready"
    /\ _frame \in ThreadFrames
    /\ nextId = 2
    /\ ncalls = 0
    /\ promotions = 0
    /\ last = NoCall
    /\ icall = NoInfer
    /\ vcall = NoValidate
    /\ threads \in {ThreadsAt(s, _frame) : s \in BOOLEAN}
NextThreads ==
    \/ scala_if_is_python
    \/ scala_schema_to_scala
    \/ scala_pythonToScala
    \/ scala_create_scala_frame
    \/ scala_assign
    \/ scala_return
SpecThreads == InitThreads /\ [][NextThreads]_vars

Next ==
    \/ __init__
    \/ rdd
    \/ schema
    \/ column_names
    \/ row_count
    \/ classification_metrics
    \/ append_csv_file
    \/ export_to_csv

Spec == Init /\ [][Next]_vars

(***************************************************************************)
(* Properties of the Frame facade (Spec).                                  *)
(***************************************************************************)
ApiOps ==
    {"rdd", "schema", "column_names", "row_count", "classification_metrics",
     "append_csv_file", "export_to_csv"}
ConversionSteps == {"pythonToScala", "create_scala_frame", "scalaToPython", "PythonFrame"}
StepSet(steps) == {steps[i] : i \in 1..Len(steps)}
KindOf(fr) == IF fr.cls = "ScalaFrame" THEN "scala" ELSE "python"

\* C1: once the Frame is constructed, the stored backend is exactly one of a
\* PythonFrame (local rows, python schema) and a Scala Frame handle (engine
\* rows, engine schema); _is_python holds exactly for the first and _is_scala
\* exactly for the second; and a call that changed the kind left a newly
\* created object in self._frame in place of the old one.
C1_ExactlyOneBackend ==
    pc = "ready" =>
        /\ _frame.cls \in {"PythonFrame", "ScalaFrame"}
        /\ _is_python(_frame) <=> _frame.cls = "PythonFrame"
        /\ _is_scala(_frame) <=> _frame.cls = "ScalaFrame"
        /\ _is_python(_frame) # _is_scala(_frame)
        /\ _frame.cls = "PythonFrame" => _frame.rdd.cls = "RDD" /\ _frame.schema.form # "scala"
        /\ _frame.cls = "ScalaFrame" => _frame.rdd.cls = "ScalaRDD" /\ _frame.schema.form = "scala"
        /\ (last.op \in ApiOps /\ last.pre.cls # _frame.cls) =>
               /\ _frame.id # last.pre.id
               /\ _frame.id = nextId - 1

C1_Witness ==
    /\ pc = "ready"
    /\ last.op = "rdd"
    /\ last.pre.cls = "ScalaFrame"
    /\ _frame.cls = "PythonFrame"
    /\ promotions = 1

\* C2: _scala on a Frame that is already Scala hands back the stored handle,
\* leaves it stored and runs no conversion step; _python (rdd) on a Frame
\* that is already python hands back the stored PythonFrame and runs no
\* bridge step at all.
C2_Idempotent ==
    /\ (last.want = "scala" /\ last.pre.cls = "ScalaFrame") =>
           /\ last.ret = last.pre.id
           /\ _frame = last.pre
           /\ StepSet(last.steps) \subseteq {"engine_op"}
    /\ (last.want = "python" /\ last.pre.cls = "PythonFrame") =>
           /\ last.ret = last.pre.id
           /\ _frame = last.pre
           /\ last.steps = <<>>
           /\ last.ok

C2_Witness ==
    /\ last.op = "classification_metrics"
    /\ last.pre.cls = "ScalaFrame"
    /\ last.ok
    /\ promotions = 1

\* C3: a call that asked for a backend kind and was handed a backend leaves
\* the Frame with that kind; the kind changes only in a call that asks for
\* the new kind; and a call asking for Scala creates a Scala frame exactly
\* when the Frame was python before it and the conversion succeeded, so a
\* run of engine operations converts once, at the first that succeeds.
C3_State ==
    (last.want # "none" /\ last.ret # -1) =>
        /\ KindOf(_frame) = last.want
        /\ last.ret = _frame.id
C3_Step ==
    /\ (pc = "ready" /\ _frame'.cls # _frame.cls) => last'.want = KindOf(_frame')
    /\ promotions' =
           promotions + IF /\ pc = "ready"
                           /\ ncalls' = ncalls + 1
                           /\ last'.want = "scala"
                           /\ _frame.cls = "PythonFrame"
                           /\ last'.ret # -1
                        THEN 1 ELSE 0
C3_KindSticks == [](C3_State) /\ [][C3_Step]_vars

C3_Witness ==
    /\ last.want = "scala"
    /\ last.pre.cls = "ScalaFrame"
    /\ last.ok
    /\ ncalls >= 2
    /\ promotions = 1

\* C4: schema, column_names and row_count leave self._frame as it was and
\* run no step of a promotion or demotion that moves rows or creates a
\* backend.
C4_AccessorsKeepBackend ==
    last.op \in {"schema", "column_names", "row_count"} =>
        /\ _frame = last.pre
        /\ StepSet(last.steps) \cap ConversionSteps = {}

C4_Witness ==
    /\ last.op = "row_count"
    /\ last.ok
    /\ _frame.cls = "PythonFrame"
    /\ ncalls >= 2

\* C5: when a step of a promotion or demotion raises, the call raises and
\* self._frame is the object it was before the call; self._frame differs
\* from the object before the call only when every step of the conversion
\* has run without raising.
C5_AtomicSwap ==
    last.op \in ApiOps =>
        /\ last.failed \in StepSet(PromoteSteps) \cup StepSet(DemoteSteps) =>
               /\ ~last.ok
               /\ last.err = "EngineBridgeError"
               /\ _frame = last.pre
        /\ _frame # last.pre =>
               /\ last.failed \in {"none", "engine_op"}
               /\ \/ /\ _frame.cls = "ScalaFrame"
                     /\ SubSeq(last.steps, 1, 3) = PromoteSteps
                  \/ /\ _frame.cls = "PythonFrame"
                     /\ last.steps = DemoteSteps

C5_Witness ==
    /\ last.op = "classification_metrics"
    /\ last.failed = "create_scala_frame"
    /\ last.pre.cls = "PythonFrame"
    /\ _frame = last.pre

\* C6 as stated: a Scala frame handle is adopted as it is, and every other
\* data argument gives a PythonFrame over the data.
C6_AsStated ==
    (last.op = "__init__" /\ last.ok) =>
        IF _is_scala_frame(last.src)
        THEN _frame = last.src /\ nextId = 1 /\ last.steps = <<>>
        ELSE /\ _frame.cls = "PythonFrame"
             /\ _frame.rdd.rows = last.src.rdd.rows

\* C6 amended: a Scala frame handle is adopted as it is (same object, no
\* bridge step, no inference, no validation); a Scala RDD is wrapped in a
\* newly created Scala frame with the converted schema; every other data
\* argument gives a PythonFrame over an RDD of the data, mapped through the
\* validation exactly when validate_schema is set and the schema is not
\* empty.
C6_InitialBackend ==
    (last.op = "__init__" /\ last.ok) =>
        IF _is_scala_frame(last.src)
        THEN _frame = last.src /\ nextId = 1 /\ last.steps = <<>>
        ELSE IF is_scala_rdd(last.src)
        THEN /\ _frame.cls = "ScalaFrame"
             /\ _frame.id = nextId - 1
             /\ _frame.rdd = last.src.rdd
             /\ _frame.schema = schema_to_scala(last.sch).schema
             /\ last.steps = <<"schema_to_scala", "create_scala_frame">>
        ELSE /\ _frame.cls = "PythonFrame"
             /\ _frame.id = nextId - 1
             /\ _frame.rdd.cls = "RDD"
             /\ _frame.rdd.rows = last.src.rdd.rows
             /\ _frame.rdd.mapped = (last.val /\ truthy(_frame.schema))
             /\ _frame.rdd.mapped => _frame.rdd.vschema = _frame.schema

C6_Witness ==
    /\ last.op = "__init__"
    /\ pc = "ready"
    /\ _is_scala_frame(last.src)
    /\ last.val
    /\ last.sch = SchemaNames(<<"number">>)

\* the schema the claim expects for a data argument with these rows
C7_Expected(rows, sch) ==
    IF is_list(sch) /\ all_names(sch)
    THEN _infer_schema(ListData(rows), sch.names, sample_size_default)
    ELSE IF sch.form = "none"
    THEN _infer_schema(ListData(rows), <<>>, sample_size_default)
    ELSE [ok |-> TRUE, err |-> "none", schema |-> sch]

\* C7 as stated: for every data argument that is not a Scala frame the
\* stored schema is the one inferred with the given names, the one inferred
\* without names, or the given list of pairs.
C7_AsStated ==
    (last.op = "__init__" /\ last.ok /\ ~_is_scala_frame(last.src)) =>
        /\ C7_Expected(last.src.rdd.rows, last.sch).ok
        /\ _frame.schema = C7_Expected(last.src.rdd.rows, last.sch).schema

\* C7 amended: that holds for a data argument that is a python list; for a
\* python object that is neither a list nor an RDD the two inferring cases
\* raise TypeError and a list of pairs is installed as given; for a python
\* RDD the schema argument is installed as given whatever its shape, and
\* for a Scala RDD it is converted to the engine's schema.
C7_SchemaResolution ==
    last.op = "__init__" =>
        /\ last.src.cls = "list" =>
               LET e == C7_Expected(last.src.rdd.rows, last.sch)
               IN  /\ last.ok = e.ok
                   /\ last.ok => _frame.schema = e.schema
                   /\ ~last.ok => last.err = "ValueError" /\ pc = "new"
        /\ last.src.cls = "tuple" =>
               /\ last.ok = (is_list(last.sch) /\ ~all_names(last.sch))
               /\ last.ok => _frame.schema = last.sch
               /\ ~last.ok => last.err = "TypeError"
        /\ (is_python_rdd(last.src) /\ last.ok) => _frame.schema = last.sch
        /\ (is_scala_rdd(last.src) /\ last.ok) =>
               _frame.schema = schema_to_scala(last.sch).schema
        /\ (/\ last.src.cls = "list"
            /\ last.src.rdd.rows = <<<<Int1, StrA>>, <<Flt15, StrA>>>>) =>
               /\ last.sch = SchemaNames(<<"number">>) =>
                      _frame.schema = SchemaFull(<<"number", "C1">>,
                                                 <<PyType("float"), PyType("str")>>)
               /\ last.sch = SchemaNone =>
                      _frame.schema = SchemaFull(<<"C0", "C1">>,
                                                 <<PyType("float"), PyType("str")>>)
               /\ last.sch = SchemaFull(<<"col_a">>, <<PyType("int")>>) =>
                      _frame.schema = last.sch

C7_Witness ==
    /\ last.op = "__init__"
    /\ pc = "ready"
    /\ last.src.cls = "list"
    /\ last.sch = SchemaNames(<<"number">>)
    /\ _frame.schema.names = <<"number", "C1">>

(***************************************************************************)
(* Properties of schema inference (SpecInfer).                             *)
(***************************************************************************)
PlaceholderNames == <<"C0", "C1", "C2", "C3", "C4", "C5">>

\* C8: the inferred schema of a non-empty data list has one entry per column
\* of the data; column i (from 0) carries requested name i when there is
\* one and "C" followed by i otherwise; requested names beyond the columns
\* are not used; an empty data list gives the empty schema whatever names
\* are requested.
C8_PositionalNames ==
    (icall.done /\ icall.data.cls = "list") =>
        LET rows == icall.data.rows
            m == Len(icall.names)
        IN  /\ rows = <<>> => icall.res.ok /\ icall.res.schema = SchemaFull(<<>>, <<>>)
            /\ (rows # <<>> /\ icall.res.ok) =>
                   LET n == Len(rows[1])
                   IN  /\ icall.res.schema.form = "full"
                       /\ Len(icall.res.schema.names) = n
                       /\ Len(icall.res.schema.types) = n
                       /\ \A i \in 0..(n - 1) :
                              icall.res.schema.names[i + 1] =
                                  IF i < m THEN icall.names[i + 1] ELSE PlaceholderNames[i + 1]

C8_Witness ==
    /\ icall.done
    /\ icall.res.ok
    /\ icall.names = <<"number">>
    /\ icall.res.schema.names = <<"number", "C1">>

\* the rows in every order
Orderings(rows) ==
    {[i \in 1..Len(rows) |-> rows[p[i]]] : p \in Permutations(1..Len(rows))}

SameTypes(r1, r2) == r1.ok = r2.ok /\ (r1.ok => r1.schema.types = r2.schema.types)

\* C9 as stated: when every row is sampled, inference gives the same types,
\* or fails, on every ordering of the rows.
C9_AsStated ==
    (icall.done /\ icall.data.cls = "list" /\ Len(icall.data.rows) <= icall.sample) =>
        \A p \in Orderings(icall.data.rows) :
            SameTypes(_infer_schema(ListData(p), icall.names, icall.sample), icall.res)

\* some column holds vectors of two lengths and a value that is no vector
MixedVectorLengths(rows) ==
    \E a, b, c \in 1..Len(rows) :
        \E j \in 1..Len(rows[a]) :
            /\ j <= Len(rows[b]) /\ j <= Len(rows[c])
            /\ rows[a][j].t = "list" /\ rows[b][j].t = "list"
            /\ rows[a][j].n # rows[b][j].n
            /\ rows[c][j].t # "list"

\* C9 amended: that holds unless some column of the rows holds vectors of two
\* different lengths together with a value that is not a vector; and the
\* merge of two rows' types does not depend on which of them comes first.
C9_OrderIndependent ==
    (icall.done /\ icall.data.cls = "list" /\ Len(icall.data.rows) <= icall.sample) =>
        /\ ~MixedVectorLengths(icall.data.rows) =>
               \A p \in Orderings(icall.data.rows) :
                   SameTypes(_infer_schema(ListData(p), icall.names, icall.sample),
                             icall.res)
        /\ \A a, b \in 1..Len(icall.data.rows) :
               LET ta == _infer_types_for_row(icall.data.rows[a])
                   tb == _infer_types_for_row(icall.data.rows[b])
               IN  /\ _merge_types(ta, tb).ok = _merge_types(tb, ta).ok
                   /\ _merge_types(ta, tb).ok =>
                          _merge_types(ta, tb).types = _merge_types(tb, ta).types

C9_Witness ==
    /\ icall.done
    /\ icall.res.ok
    /\ icall.data.rows = <<<<Int1>>, <<List2>>, <<Flt15>>>>
    /\ icall.res.schema.types = <<PyType("str")>>

(***************************************************************************)
(* Properties of schema validation (SpecValidate).                         *)
(***************************************************************************)
CastTargets == {"int", "long", "float", "str", "unicode"}

\* the value is an instance of the declared class
OfDeclaredType(x, ty) ==
    IF ty.k = "vector" THEN x.t = "list" /\ x.n = ty.n
    ELSE x.t = ty.k \/ (x.t = "bool" /\ ty.k = "int")

\* python cannot convert the value to the declared type
CannotConvert(x, ty) ==
    CASE ty.k \in {"int", "long"} ->
             \/ x.t \in {"list", "NoneType", "datetime"}
             \/ x.t \in {"str", "unicode"} /\ x.v \notin {"1"}
      [] ty.k = "float" ->
             \/ x.t \in {"list", "NoneType", "datetime"}
             \/ x.t \in {"str", "unicode"} /\ x.v \notin {"1", "1.0", "1.5"}
      [] ty.k \in {"str", "unicode"} -> FALSE
      [] ty.k = "vector" -> ~(x.t = "list" /\ x.n = ty.n)
      [] OTHER -> FALSE

\* C10: for a row whose arity is the schema's length, a conversion that
\* fails is never what raises: the mapped function raises only the
\* RuntimeError of a column whose declared type it has no conversion for,
\* and otherwise returns a row of the same arity in which a cell of the
\* declared type is the value given, a cell that cannot be converted is
\* None, and any other cell holds the converted value, never None; a row
\* with a nulled cell does not stop the rows after it.
C10_CastFailureIsNull ==
    (vcall.pulled >= 1 /\ Len(vcall.row) = Len(vcall.schema.names)) =>
        LET row == vcall.row
            types == vcall.schema.types
            out == vcall.out
            NoConversion(i) ==
                /\ types[i].k \notin CastTargets \cup {"vector"}
                /\ ~OfDeclaredType(row[i], types[i])
        IN  /\ out.ok = ~(\E i \in 1..Len(row) : NoConversion(i))
            /\ ~out.ok => out.err = "RuntimeError"
            /\ out.ok =>
                   /\ Len(out.data) = Len(row)
                   /\ \A i \in 1..Len(row) :
                          IF OfDeclaredType(row[i], types[i]) THEN out.data[i] = row[i]
                          ELSE IF CannotConvert(row[i], types[i]) THEN out.data[i] = None
                          ELSE out.data[i] # None
                   /\ out.nulled =
                          (\E i \in 1..Len(row) :
                              /\ ~OfDeclaredType(row[i], types[i])
                              /\ CannotConvert(row[i], types[i]))
            /\ (out.ok /\ vcall.pulled < MaxPulled) => ENABLED validate_row

C10_Witness ==
    /\ vcall.pulled = 2
    /\ vcall.prev_nulled
    /\ vcall.out.ok
    /\ vcall.row = <<StrA, Int1>>
    /\ vcall.out.data = <<None, PyValue("float", "1.0", 0)>>

\* C11: with schema validation on, a value that cannot be cast to the type
\* declared for its column makes the consumption of its row raise
\* ValueError (the create docstring; the test feeds strings that do not
\* parse as integers to an integer column and expects an exception).
C11_CastFailureRaises ==
    (/\ vcall.pulled >= 1
     /\ Len(vcall.row) = Len(vcall.schema.names)
     /\ \E i \in 1..Len(vcall.row) :
            /\ vcall.schema.types[i].k \in CastTargets \cup {"vector"}
            /\ ~OfDeclaredType(vcall.row[i], vcall.schema.types[i])
            /\ CannotConvert(vcall.row[i], vcall.schema.types[i])) =>
        /\ ~vcall.out.ok
        /\ vcall.out.err = "ValueError"

\* the (1-based) positions of the rows whose length is not the schema's
ArityMismatch(rows, sch) == {i \in 1..Len(rows) : Len(rows[i]) # Len(sch.names)}

\* a row of the schema's length on which validate_schema raises: the schema
\* is a list of bare names, or a column's type has no conversion and the
\* value is not of it
RaisesOtherwise(row, sch) ==
    /\ Len(row) = Len(sch.names)
    /\ Len(row) > 0
    /\ \/ sch.form # "full"
       \/ \E i \in 1..Len(row) :
              /\ sch.types[i].k \notin CastTargets \cup {"vector"}
              /\ ~OfDeclaredType(row[i], sch.types[i])

\* C12: a constructor call with validate_schema=True on python data never
\* raises for a row whose length differs from the schema's: with a list of
\* (name, type) pairs or an RDD it returns, and with an inferred schema it
\* raises only what the inference raises; the rows are stored unconsumed
\* under the validating map.  Counting the rows then raises ValueError when
\* a row of another length comes before any row that raises otherwise, and
\* no count is returned; without a raising row the count is the number of
\* rows.
C12_DeferredArityError ==
    /\ (last.op = "__init__" /\ last.val /\ last.src.cls \in {"list", "tuple", "RDD"}) =>
           /\ (is_python_rdd(last.src) \/ (is_list(last.sch) /\ ~all_names(last.sch))) =>
                  last.ok
           /\ last.src.cls = "list" =>
                  last.ok = C7_Expected(last.src.rdd.rows, last.sch).ok
           /\ (last.ok /\ truthy(_frame.schema)) =>
                  /\ _frame.rdd.mapped
                  /\ _frame.rdd.vschema = _frame.schema
                  /\ _frame.rdd.rows = last.src.rdd.rows
    /\ (last.op = "row_count" /\ last.failed = "none" /\ last.pre.rdd.mapped) =>
           LET rows == last.pre.rdd.rows
               sch == last.pre.rdd.vschema
               bad == ArityMismatch(rows, sch)
               other == {i \in 1..Len(rows) : RaisesOtherwise(rows[i], sch)}
           IN  /\ (bad # {} /\ \A i \in other : \E k \in bad : k < i) =>
                      /\ ~last.ok
                      /\ last.err = "ValueError"
                      /\ last.count = -1
                      /\ _frame = last.pre
               /\ (bad = {} /\ other = {}) => last.ok /\ last.count = Len(rows)

C12_Witness ==
    /\ last.op = "row_count"
    /\ ~last.ok
    /\ last.err = "ValueError"
    /\ _frame.cls = "PythonFrame"
    /\ _frame.rdd.mapped
    /\ _frame.rdd.rows = <<<<Int1>>, <<Int1, StrA>>>>
    /\ _frame.schema = SchemaFull(<<"col_a">>, <<PyType("int")>>)

\* the column types the design lists as cast targets: String, Integer(32),
\* Integer(64), Float(64), Boolean and Vector(N)
ListedTargets == {"str", "unicode", "int", "long", "float", "bool", "vector"}

\* validate_pyrdd_schema has been called
BindCalled == vcall.bound \/ vcall.err # "none"

\* C13 as stated: binding a schema that declares a column type outside the
\* listed cast targets raises at the call, before any row is consumed.
C13_AsStated ==
    (/\ BindCalled
     /\ vcall.cls = "RDD"
     /\ \E i \in 1..Len(vcall.schema.types) : vcall.schema.types[i].k \notin ListedTargets) =>
        /\ ~vcall.bound
        /\ vcall.err # "none"

\* C13 amended: binding a schema to an RDD never raises, whatever types the
\* schema declares (only something that is not an RDD raises, TypeError);
\* the unsupported-type RuntimeError is raised when a row of the schema's
\* length is consumed that holds, in a column whose declared type has no
\* conversion, a value that is not of that type; it is raised for no other
\* row, so never without rows and never when every value is of its
\* declared type.
C13_UnsupportedTypeIsLazy ==
    /\ (BindCalled /\ vcall.cls = "RDD") => vcall.bound /\ vcall.err = "none"
    /\ (BindCalled /\ vcall.cls # "RDD") => ~vcall.bound /\ vcall.err = "TypeError"
    /\ vcall.pulled = 0 => vcall.out.ok
    /\ (vcall.pulled >= 1 /\ Len(vcall.row) = Len(vcall.schema.names)) =>
           ((~vcall.out.ok /\ vcall.out.err = "RuntimeError") <=>
                \E i \in 1..Len(vcall.row) :
                    /\ vcall.schema.types[i].k \notin CastTargets \cup {"vector"}
                    /\ ~OfDeclaredType(vcall.row[i], vcall.schema.types[i]))

C13_Witness ==
    /\ vcall.bound
    /\ vcall.schema = SchemaFull(<<"a">>, <<PyType("datetime")>>)
    /\ vcall.pulled = 2
    /\ vcall.row = <<StrA>>
    /\ ~vcall.out.ok
    /\ vcall.out.err = "RuntimeError"

\* C14 as stated: a schema that uses only the listed cast targets never
\* makes a row of its length raise the unsupported-type error; a Boolean
\* column holding a value that is no boolean gives a cast value or None.
C14_AsStated ==
    (/\ vcall.pulled >= 1
     /\ Len(vcall.row) = Len(vcall.schema.names)
     /\ \A i \in 1..Len(vcall.row) : vcall.schema.types[i].k \in ListedTargets) =>
        vcall.out.ok

\* C14 amended: that holds of str, unicode, int, long, float and vector(n):
\* a schema using only these never makes a row of its length raise.
\* Boolean is no cast target: a bool column passes a boolean through as it
\* is and raises the unsupported-type RuntimeError for any other value.
C14_CastTargetsAccepted ==
    (vcall.pulled >= 1 /\ Len(vcall.row) = Len(vcall.schema.names)) =>
        LET row == vcall.row
            types == vcall.schema.types
        IN  /\ (\A i \in 1..Len(row) : types[i].k \in CastTargets \cup {"vector"}) =>
                   vcall.out.ok
            /\ (\E i \in 1..Len(row) : types[i].k = "bool" /\ row[i].t # "bool") =>
                   ~vcall.out.ok /\ vcall.out.err = "RuntimeError"
            /\ vcall.out.ok =>
                   \A i \in 1..Len(row) : types[i].k = "bool" => vcall.out.data[i] = row[i]

C14_Witness ==
    /\ vcall.pulled >= 1
    /\ vcall.schema.types = <<PyType("float"), PyType("bool")>>
    /\ vcall.row = <<Int1, Int1>>
    /\ ~vcall.out.ok
    /\ vcall.out.err = "RuntimeError"

\* the type inferred for one value
TypeOfValue(v) == IF v.t # "list" THEN PyType(v.t) ELSE vector(v.n)

\* the left fold of merge_types over column j of rows 1..k, from row 1 on:
\* acc is the fold of the rows before row i
RECURSIVE FoldFrom(_, _, _, _, _)
FoldFrom(acc, rows, j, i, k) ==
    IF i > k \/ ~acc.ok THEN acc
    ELSE FoldFrom(merge_types(acc.type, TypeOfValue(rows[i][j])), rows, j, i + 1, k)

ColumnFold(rows, j, k) ==
    FoldFrom([ok |-> TRUE, type |-> TypeOfValue(rows[1][j])], rows, j, 2, k)

\* C15: for a non-empty data list the inference reads the first
\* k = min(sample_size, len(rows)) rows and no other: it raises exactly when
\* one of these rows has another length than the first row or the fold of
\* merge_types over a column of these rows fails, and otherwise the type of
\* column j is that fold; rows after the first k have no part in the result,
\* whatever their length and values, so integer rows filling the default
\* sample followed by rows of strings give an integer column.
C15_SamplePrefix ==
    (icall.done /\ icall.data.cls = "list" /\ icall.data.rows # <<>>) =>
        LET rows == icall.data.rows
            k == IF icall.sample < Len(rows) THEN icall.sample ELSE Len(rows)
            same_length == \A i \in 1..k : Len(rows[i]) = Len(rows[1])
            folds == same_length /\ \A j \in 1..Len(rows[1]) : ColumnFold(rows, j, k).ok
        IN  /\ icall.res.ok = folds
            /\ ~icall.res.ok => icall.res.err = "ValueError"
            /\ icall.res.ok =>
                   /\ Len(icall.res.schema.types) = Len(rows[1])
                   /\ \A j \in 1..Len(rows[1]) :
                          icall.res.schema.types[j] = ColumnFold(rows, j, k).type
            /\ rows = IntsThenStrings =>
                   /\ icall.res.ok
                   /\ icall.res.schema = SchemaFull(<<"C0">>, <<PyType("int")>>)

C15_Witness ==
    /\ icall.done
    /\ icall.sample = 1
    /\ icall.data.rows = <<<<Int1>>, <<Int1, Flt15>>>>
    /\ icall.res.ok
    /\ icall.res.schema.types = <<PyType("int")>>

\* C16: every row the validating map produces has the schema's length, and
\* each of its cells is None or a value of the type declared for its column.
C16_RowsConform ==
    (vcall.pulled >= 1 /\ vcall.out.ok /\ vcall.schema.form = "full") =>
        /\ Len(vcall.out.data) = Len(vcall.schema.names)
        /\ \A i \in 1..Len(vcall.out.data) :
               \/ vcall.out.data[i] = None
               \/ OfDeclaredType(vcall.out.data[i], vcall.schema.types[i])

(***************************************************************************)
(* Properties of concurrent backend requests (SpecThreads).                *)
(***************************************************************************)
\* the threads that have created a Scala frame
Converted == {t \in Threads : threads.t[t].made # NoObject}

\* C17: _scala takes no lock.  When the callers keep the calls on a Frame
\* apart, no call raises, at most one Scala frame is ever created (exactly
\* one once a call on a python-backed Frame has returned), and every call
\* returns the Scala frame stored in the Frame.  Without that, each thread
\* that passed the test of line 200 on the python-backed Frame and went
\* through the conversion creates a Scala frame of its own, so a second
\* Scala frame, a raising call or a returned handle that is not the one
\* stored occur only when the calls are not kept apart.
C17_SerializedConvertsOnce ==
    /\ promotions = Cardinality(Converted)
    /\ \A t \in Converted : _is_python(threads.first)
    /\ threads.serialized =>
           /\ promotions <= 1
           /\ \A t \in Threads :
                  /\ threads.t[t].pc # "raised"
                  /\ threads.t[t].pc = "done" =>
                         /\ _is_scala(_frame)
                         /\ threads.t[t].ret = _frame.id
                         /\ promotions = IF _is_python(threads.first) THEN 1 ELSE 0
    /\ \A t, u \in Converted : t # u => threads.t[t].made.id # threads.t[u].made.id

\* two threads both passed the test and both converted: two Scala frames
\* exist, and the first thread was handed one that the Frame no longer holds
C17_Witness ==
    /\ ~threads.serialized
    /\ threads.t[1].pc = "done"
    /\ threads.t[2].pc = "done"
    /\ promotions = 2
    /\ threads.t[1].ret = threads.t[1].made.id
    /\ _frame = threads.t[2].made
    /\ threads.t[1].ret # _frame.id

====
